---------------------------- MODULE Spec2Model ----------------------------
(***************************************************************************)
(* A model of day16 (src/day16/src/main.rs): the hexadecimal transcoder,   *)
(* the BinaryCursor, the Parser, the recursive packet decoder              *)
(* (BinaryReader::decode / read_packet / read_packets) and the two folds   *)
(* over the decoded Packet tree (count_version, calculate).                *)
(*                                                                         *)
(* Representation.                                                         *)
(*   - a character is a one-character string; a String is a sequence of    *)
(*     characters;                                                         *)
(*   - a u16 is a natural number below 2^16;                               *)
(*   - a u64 is a sequence of 16 hexadecimal digits (nibbles), the most    *)
(*     significant first, so that the 64-bit width is kept exactly;        *)
(*   - an Option is a sequence of length 0 (None) or 1 (Some);             *)
(*   - a panic (abort of the program) is a pc of "panic" with its message. *)
(***************************************************************************)
EXTENDS Integers, Sequences, FiniteSets, TLC

VARIABLES
    source,      \* what the run starts from: a hexadecimal text, a binary String, a Packet or a cursor
    checked,     \* the build: TRUE when integer overflow checks are compiled in (debug), FALSE when not (release)
    input,       \* BinaryReader.input
    cursors,     \* the live BinaryCursors (one per Parser), the top-level one first
    stack,       \* the call stack of read_packet / read_packets activations
    pc,          \* where main (or the test) stands
    panic,       \* the message of the panic that aborted the program, "" when none
    packet,      \* Option<Packet>: the result of decode
    versions,    \* Option<usize>: the result of count_version
    value,       \* Option<u64>: the result of calculate
    last,        \* the last BinaryCursor operation: its arguments, the cursor before it and its outcome
    log          \* history: the read_bits and skip_bits calls made while decoding, in order

vars == <<source, checked, input, cursors, stack, pc, panic, packet, versions, value, last, log>>

-----------------------------------------------------------------------------
(* Characters and digits                                                   *)

DigitChars == <<"0", "1", "2", "3", "4", "5", "6", "7", "8", "9",
                "a", "b", "c", "d", "e", "f">>

UpperChars == <<"0", "1", "2", "3", "4", "5", "6", "7", "8", "9",
                "A", "B", "C", "D", "E", "F">>

\* char::to_digit(radix): Some(value) for a digit of the radix, either case, else None
ToDigit(c, radix) ==
    LET hits == {i \in 1..16 : DigitChars[i] = c \/ UpperChars[i] = c}
    IN  IF hits = {} THEN <<>>
        ELSE LET v == (CHOOSE i \in hits : TRUE) - 1
             IN  IF v < radix THEN <<v>> ELSE <<>>

\* 1 << k
Pow2(k) == 2 ^ k

\* the four binary digits with the least significant first
Format04bLittle(v) ==
    <<DigitChars[(v % 2) + 1], DigitChars[((v \div 2) % 2) + 1],
      DigitChars[((v \div 4) % 2) + 1], DigitChars[((v \div 8) % 2) + 1]>>

\* format!("{:04b}", value): binary, zero-padded to a width of at least 4
Format04b(v) ==
    <<DigitChars[((v \div 8) % 2) + 1], DigitChars[((v \div 4) % 2) + 1],
      DigitChars[((v \div 2) % 2) + 1], DigitChars[(v % 2) + 1]>>

\* chars().filter_map(|c| c.to_digit(radix)): the digits of the characters that are
\* digits of the radix, in order
FilterMapDigits(text, radix) ==
    LET kept == SelectSeq(text, LAMBDA c : ToDigit(c, radix) # <<>>)
    IN  [i \in 1..Len(kept) |-> ToDigit(kept[i], radix)[1]]

\* parse_hex_input: .map(|value| format!("{:04b}", value)).collect_vec().join(""),
\* the binary String handed to BinaryReader::new
ParseHexInput(hexadecimal) ==
    LET digits == FilterMapDigits(hexadecimal, 16)
    IN  [i \in 1..(4 * Len(digits)) |->
            Format04b(digits[((i - 1) \div 4) + 1])[((i - 1) % 4) + 1]]

\* impl From<&str> for BinaryCursor: the bytes of the cursor
BinaryBytes(text) == FilterMapDigits(text, 2)

-----------------------------------------------------------------------------
(* u64 arithmetic on 16 nibbles                                            *)

U64Nibbles == 16

U64Zero == [i \in 1..U64Nibbles |-> 0]

U64One == [i \in 1..U64Nibbles |-> IF i = U64Nibbles THEN 1 ELSE 0]

\* the accumulation with the mask 0b111 in place of 0b1111
ShlAddMask3(result, bits) == Tail(result) \o <<bits % 8>>

\* result.shl(4) + (bits & 0xF): the top nibble is shifted out, the sum cannot carry
ShlAdd(result, bits) == Tail(result) \o <<bits % 16>>

\* the carry into nibble i of x + y: some lower nibble j overflows and every nibble
\* between the two passes the carry on (i = 0: the carry out of the top nibble)
CarryInto(x, y, i) ==
    \E j \in (i + 1)..Len(x) :
        /\ x[j] + y[j] >= 16
        /\ \A k \in (i + 1)..(j - 1) : x[k] + y[k] = 15

\* x + y on two numbers of as many nibbles: the nibbles of the sum and the carry out
AddNibbles(x, y) ==
    [digits |-> [i \in 1..Len(x) |->
                    (x[i] + y[i] + (IF CarryInto(x, y, i) THEN 1 ELSE 0)) % 16],
     carry |-> IF CarryInto(x, y, 0) THEN 1 ELSE 0]

\* a + b on u64: the wrapped sum and whether it overflowed
U64Add(a, b) ==
    LET r == AddNibbles(a, b)
    IN  [value |-> r.digits, overflow |-> r.carry # 0]

RECURSIVE ColumnLoop(_, _, _, _, _)
\* the sum of the products a[m] * b[k - m] of weight 16^(32 - k), over the nibbles
\* m in i..j of a
ColumnLoop(a, b, k, i, j) ==
    IF i > j THEN 0
    ELSE IF i = j
    THEN IF k - i >= 1 /\ k - i <= U64Nibbles THEN a[i] * b[k - i] ELSE 0
    ELSE LET m == (i + j) \div 2
         IN  ColumnLoop(a, b, k, i, m) + ColumnLoop(a, b, k, m + 1, j)

\* the 32 nibbles of the full product a * b, the most significant first: the column
\* sums (below 16^3) are spread over three columns, the sums that gives (below 48)
\* over two, and what is left is the sum of two numbers
FullProduct(a, b) ==
    LET n == 2 * U64Nibbles
        column == [k \in 1..(n + 2) |->
                      IF k > n THEN 0 ELSE ColumnLoop(a, b, k, 1, U64Nibbles)]
        spread == [k \in 1..(n + 1) |->
                      IF k > n THEN 0
                      ELSE (column[k] % 16) + ((column[k + 1] \div 16) % 16)
                           + (column[k + 2] \div 256)]
        low == [k \in 1..n |-> spread[k] % 16]
        high == [k \in 1..n |-> spread[k + 1] \div 16]
    IN  AddNibbles(low, high).digits

\* a * b on u64: the wrapped product and whether it overflowed
U64Mul(a, b) ==
    LET full == FullProduct(a, b)
    IN  [value |-> SubSeq(full, U64Nibbles + 1, 2 * U64Nibbles),
         overflow |-> \E i \in 1..U64Nibbles : full[i] # 0]

\* a < b on u64: the first nibble that differs decides
U64Less(a, b) ==
    \E i \in 1..U64Nibbles :
        /\ a[i] < b[i]
        /\ \A j \in 1..(i - 1) : a[j] = b[j]

-----------------------------------------------------------------------------
(* BinaryCursor                                                            *)

\* a cursor that starts where its bytes lie in the top-level buffer
NewCursorAtBase(bytes, base) == [bytes |-> bytes, index |-> base, base |-> base]

\* BinaryCursor::new: a copy of the bytes, index 0 (base: where bytes[0] lies in
\* the top-level buffer, kept for the properties only)
NewCursor(bytes, base) == [bytes |-> bytes, index |-> 0, base |-> base]

\* BinaryCursor::is_empty: [panic, value]. On an empty buffer the usize subtraction
\* self.bytes.len() - 1 panics with overflow checks and wraps to usize::MAX without
IsEmpty(c, chk) ==
    IF Len(c.bytes) = 0
    THEN IF chk THEN [panic |-> "attempt to subtract with overflow", value |-> FALSE]
         ELSE [panic |-> "", value |-> FALSE]   \* index >= usize::MAX never holds
    ELSE [panic |-> "", value |-> c.index >= Len(c.bytes) - 1]

\* result | 1_u16.shl(k)
Or16(result, k) ==
    IF (result \div Pow2(k)) % 2 = 1 THEN result ELSE result + Pow2(k)

RECURSIVE ReadBitsLoopLittle(_, _, _, _)
\* read_bits that sets bit i instead of bit bits - 1 - i
ReadBitsLoopLittle(c, bits, i, j) ==
    IF i >= j THEN 0
    ELSE IF j - i = 1
    THEN IF c.bytes[c.index + i + 1] = 1 THEN Or16(0, i) ELSE 0
    ELSE LET m == (i + j) \div 2
         IN  ReadBitsLoopLittle(c, bits, i, m) + ReadBitsLoopLittle(c, bits, m, j)

RECURSIVE ReadBitsLoop(_, _, _, _)
\* what the passes i..j-1 of the loop of read_bits leave in result: pass i sets bit
\* bits - 1 - i when bytes[index + i] is 1; no two passes set the same bit, so the
\* bits of the two halves of the loop add up
ReadBitsLoop(c, bits, i, j) ==
    IF i >= j THEN 0
    ELSE IF j - i = 1
    THEN IF c.bytes[c.index + i + 1] = 1 THEN Or16(0, bits - 1 - i) ELSE 0
    ELSE LET m == (i + j) \div 2
         IN  ReadBitsLoop(c, bits, i, m) + ReadBitsLoop(c, bits, m, j)

\* a read_bits that advances the index by half the bits it read
ReadBitsHalf(c, bits) ==
    IF bits > 16
    THEN [panic |-> "assertion failed: bits <= 16", value |-> 0, cursor |-> c]
    ELSE IF bits > 0 /\ c.index + bits > Len(c.bytes)
    THEN [panic |-> "index out of bounds", value |-> 0, cursor |-> c]
    ELSE [panic |-> "", value |-> ReadBitsLoop(c, bits, 0, bits),
          cursor |-> [c EXCEPT !.index = c.index + (bits \div 2)]]

\* BinaryCursor::read_bits: [panic, value, cursor]; it has no Err outcome. A pass
\* whose index + i lies behind the buffer panics before self.index += bits
ReadBits(c, bits) ==
    IF bits > 16
    THEN [panic |-> "assertion failed: bits <= 16", value |-> 0, cursor |-> c]
    ELSE IF bits > 0 /\ c.index + bits > Len(c.bytes)
    THEN [panic |-> "index out of bounds", value |-> 0, cursor |-> c]
    ELSE [panic |-> "", value |-> ReadBitsLoop(c, bits, 0, bits),
          cursor |-> [c EXCEPT !.index = c.index + bits]]

\* skip_bits that leaves the index where it is
SkipBitsNone(c, num_bits) == c

\* skip_bits that sets the index instead of advancing it
SkipBitsAssign(c, num_bits) == [c EXCEPT !.index = num_bits]

\* BinaryCursor::skip_bits
SkipBits(c, num_bits) == [c EXCEPT !.index = c.index + num_bits]

\* a seek to the start of the byte the index lies in
SeekByteStart(c) == [c EXCEPT !.index = (c.index \div 8) * 8]

\* BinaryCursor::seek_next_byte
SeekNextByte(c) == [c EXCEPT !.index = ((c.index + 8) \div 8) * 8]

\* a slice that runs to the end of the buffer: &self.bytes[self.index..]
SliceToEnd(c, next_bits) ==
    IF c.index > Len(c.bytes)
    THEN [panic |-> "range start index out of range", bytes |-> <<>>]
    ELSE [panic |-> "", bytes |-> SubSeq(c.bytes, c.index + 1, Len(c.bytes))]

\* BinaryCursor::slice: &self.bytes[self.index..][..next_bits]
Slice(c, next_bits) ==
    IF c.index > Len(c.bytes)
    THEN [panic |-> "range start index out of range", bytes |-> <<>>]
    ELSE IF next_bits > Len(c.bytes) - c.index
    THEN [panic |-> "range end index out of range", bytes |-> <<>>]
    ELSE [panic |-> "", bytes |-> SubSeq(c.bytes, c.index + 1, c.index + next_bits)]

-----------------------------------------------------------------------------
(* Packet                                                                  *)

\* the conversion with the kinds of 5 and 6 exchanged
OperatorTypeFromSwapped(val) ==
    CASE val = 0 -> "Sum"
      [] val = 1 -> "Product"
      [] val = 2 -> "Min"
      [] val = 3 -> "Max"
      [] val = 5 -> "LessThan"
      [] val = 6 -> "GreaterThan"
      [] val = 7 -> "Equal"
      [] OTHER -> ""

\* the conversion without an arm for 7
OperatorTypeFromSix(val) ==
    CASE val = 0 -> "Sum"
      [] val = 1 -> "Product"
      [] val = 2 -> "Min"
      [] val = 3 -> "Max"
      [] val = 5 -> "GreaterThan"
      [] val = 6 -> "LessThan"
      [] OTHER -> ""

\* impl From<u16> for OperatorType; "" stands for the panic "Operator not supported."
OperatorTypeFrom(val) ==
    CASE val = 0 -> "Sum"
      [] val = 1 -> "Product"
      [] val = 2 -> "Min"
      [] val = 3 -> "Max"
      [] val = 5 -> "GreaterThan"
      [] val = 6 -> "LessThan"
      [] val = 7 -> "Equal"
      [] OTHER -> ""

\* Packet::literal
PacketLiteral(version, type_id, literal) ==
    [version |-> version, type_id |-> type_id,
     data |-> [tag |-> "Literal", literal |-> literal]]

\* an operator that holds its packets in reverse order
PacketOperatorReversed(version, type_id, packets, kind) ==
    [version |-> version, type_id |-> type_id,
     data |-> [tag |-> "Operator",
               packets |-> [i \in 1..Len(packets) |-> packets[Len(packets) + 1 - i]],
               kind |-> kind]]

\* Packet::operator, with Operator { packets, kind }
PacketOperator(version, type_id, packets, kind) ==
    [version |-> version, type_id |-> type_id,
     data |-> [tag |-> "Operator", packets |-> packets, kind |-> kind]]

-----------------------------------------------------------------------------
(* The decoder: one activation record per call of read_packet/read_packets *)

\* an activation of BinaryReader::read_packet on parser `cur`, entered at index `start`
PacketFrame(cur, start) ==
    [fn |-> "read_packet", pc |-> "header", cur |-> cur, start |-> start,
     version |-> 0, id |-> 0, literal |-> U64Zero, groups |-> 0,
     mode |-> 0, total_length |-> 0, num_packets |-> 0, after |-> 0,
     packets |-> <<>>, spans |-> <<>>, sub |-> <<>>]

\* an activation of BinaryReader::read_packets on parser `cur`
PacketsFrame(cur, start) ==
    [fn |-> "read_packets", pc |-> "mode", cur |-> cur, start |-> start,
     version |-> 0, id |-> 0, literal |-> U64Zero, groups |-> 0,
     mode |-> 0, total_length |-> 0, num_packets |-> 0, after |-> 0,
     packets |-> <<>>, spans |-> <<>>, sub |-> <<>>]

Top == stack[Len(stack)]

TopCursor == cursors[Top.cur]

Running(fn, at) ==
    /\ pc = "decoding"
    /\ stack # <<>>
    /\ Top.fn = fn
    /\ Top.pc = at

SetTop(frame) == [stack EXCEPT ![Len(stack)] = frame]

SetCursor(c) == [cursors EXCEPT ![Top.cur] = c]

\* history: a read_bits(bits) on parser `cur` that returned r, at index c.index
ReadEvent(cur, c, bits, r) ==
    IF r.panic # "" THEN <<>>
    ELSE <<[op |-> "read_bits", cur |-> cur, at |-> c.base + c.index,
            bits |-> bits, value |-> r.value]>>

\* history: the skip_bits(total_length) of a parser whose sub parser stopped at `consumed`
SkipEvent(cur, c, total_length, consumed) ==
    <<[op |-> "skip_bits", cur |-> cur, at |-> c.base + c.index,
       bits |-> total_length, value |-> consumed]>>

\* the program aborts with `msg`; the cursor keeps what it had consumed
Abort(msg, cs) ==
    /\ pc' = "panic"
    /\ panic' = msg
    /\ cursors' = cs
    /\ UNCHANGED <<source, checked, input, stack, packet, versions, value, last>>

\* the decoder goes on, with the cursors and the stack as given
Continue(cs, st) ==
    /\ cursors' = cs
    /\ stack' = st
    /\ UNCHANGED <<source, checked, input, pc, panic, packet, versions, value, last>>

\* read_packet returns Ok(p): to decode when it is the outermost call, else into
\* the Vec of the read_packets loop that called it
ReturnPacket(p, cs) ==
    LET callee == Top
        rest == SubSeq(stack, 1, Len(stack) - 1)
        span == [cur |-> callee.cur, from |-> callee.start, to |-> cs[callee.cur].index]
    IN  /\ cursors' = cs
        /\ IF rest = <<>>
           THEN /\ stack' = <<>>
                /\ packet' = <<p>>
                /\ pc' = "decoded"
           ELSE /\ stack' = [rest EXCEPT ![Len(rest)] =
                                [@ EXCEPT !.packets = Append(@, p),
                                          !.spans = Append(@, span)]]
                /\ UNCHANGED <<packet, pc>>
        /\ UNCHANGED <<source, checked, input, panic, versions, value, last>>

\* read_packets returns Ok(packets) to the read_packet that called it
ReturnPackets(frame, cs) ==
    LET rest == SubSeq(stack, 1, Len(stack) - 1)
    IN  Continue(cs, [rest EXCEPT ![Len(rest)] =
                         [@ EXCEPT !.pc = "operator",
                                   !.packets = frame.packets,
                                   !.sub = <<frame>>]])

\* Parser::read_header, then the match on the type id (main.rs 284-288)
ReadHeader ==
    /\ Running("read_packet", "header")
    /\ LET v == ReadBits(TopCursor, 3)
           t == ReadBits(v.cursor, 3)
       IN  /\ log' = log \o ReadEvent(Top.cur, TopCursor, 3, v)
                        \o (IF v.panic # "" THEN <<>>
                            ELSE ReadEvent(Top.cur, v.cursor, 3, t))
           /\ IF v.panic # "" THEN Abort(v.panic, SetCursor(v.cursor))
              ELSE IF t.panic # "" THEN Abort(t.panic, SetCursor(t.cursor))
              ELSE IF t.value = 4
              THEN Continue(SetCursor(t.cursor),
                            SetTop([Top EXCEPT !.version = v.value, !.id = t.value,
                                               !.pc = "literal"]))
              ELSE Continue(SetCursor(t.cursor),
                            Append(SetTop([Top EXCEPT !.version = v.value,
                                                      !.id = t.value,
                                                      !.pc = "packets"]),
                                   PacketsFrame(Top.cur, t.cursor.index)))

\* one iteration of the loop of Parser::read_literal; after the last one
\* read_packet returns Packet::literal
ReadLiteral ==
    /\ Running("read_packet", "literal")
    /\ LET r == ReadBits(TopCursor, 5)
           result == ShlAdd(Top.literal, r.value)
       IN  /\ log' = log \o ReadEvent(Top.cur, TopCursor, 5, r)
           /\ IF r.panic # "" THEN Abort(r.panic, SetCursor(r.cursor))
              ELSE IF (r.value \div 16) % 2 >= 1
              THEN Continue(SetCursor(r.cursor),
                            SetTop([Top EXCEPT !.literal = result, !.groups = @ + 1]))
              ELSE ReturnPacket(PacketLiteral(Top.version, Top.id, result),
                                SetCursor(r.cursor))

\* read_packets: the length-type bit
ReadMode ==
    /\ Running("read_packets", "mode")
    /\ LET r == ReadBits(TopCursor, 1)
       IN  /\ log' = log \o ReadEvent(Top.cur, TopCursor, 1, r)
           /\ IF r.panic # "" THEN Abort(r.panic, SetCursor(r.cursor))
              ELSE Continue(SetCursor(r.cursor),
                            SetTop([Top EXCEPT !.mode = r.value,
                                               !.pc = IF r.value = 0 THEN "length"
                                                      ELSE "count"]))

\* mode 0: total_length, and the sub parser over parser.slice(total_length)
ReadTotalLength ==
    /\ Running("read_packets", "length")
    /\ LET r == ReadBits(TopCursor, 15)
           s == Slice(r.cursor, r.value)
       IN  /\ log' = log \o ReadEvent(Top.cur, TopCursor, 15, r)
           /\ IF r.panic # "" THEN Abort(r.panic, SetCursor(r.cursor))
              ELSE IF s.panic # "" THEN Abort(s.panic, SetCursor(r.cursor))
              ELSE Continue(Append(SetCursor(r.cursor),
                                   NewCursor(s.bytes, r.cursor.base + r.cursor.index)),
                            SetTop([Top EXCEPT !.total_length = r.value,
                                               !.after = r.cursor.index,
                                               !.pc = "while"]))

\* mode 0: the test of `while !sub_parser.is_empty()`: either the call of
\* read_packet on the sub parser, or skip_bits(total_length) and the return
WhileNotEmpty ==
    /\ Running("read_packets", "while")
    /\ LET sub == Len(cursors)
           e == IsEmpty(cursors[sub], checked)
       IN  IF e.panic # ""
           THEN Abort(e.panic, cursors) /\ UNCHANGED log
           ELSE IF ~e.value
           THEN /\ Continue(cursors, Append(stack, PacketFrame(sub, cursors[sub].index)))
                /\ UNCHANGED log
           ELSE /\ ReturnPackets([Top EXCEPT !.sub = <<cursors[sub]>>],
                                 SubSeq(SetCursor(SkipBits(TopCursor, Top.total_length)),
                                        1, sub - 1))
                /\ log' = log \o SkipEvent(Top.cur, TopCursor, Top.total_length,
                                           cursors[sub].index)

\* mode 1: num_packets
ReadNumPackets ==
    /\ Running("read_packets", "count")
    /\ LET r == ReadBits(TopCursor, 11)
       IN  /\ log' = log \o ReadEvent(Top.cur, TopCursor, 11, r)
           /\ IF r.panic # "" THEN Abort(r.panic, SetCursor(r.cursor))
              ELSE Continue(SetCursor(r.cursor),
                            SetTop([Top EXCEPT !.num_packets = r.value,
                                               !.after = r.cursor.index,
                                               !.pc = "for"]))

\* the loop of mode 1 over 0..=num_packets
ForNumPacketsInclusive ==
    /\ Running("read_packets", "for")
    /\ IF Len(Top.packets) <= Top.num_packets
       THEN Continue(cursors, Append(stack, PacketFrame(Top.cur, TopCursor.index)))
       ELSE ReturnPackets(Top, cursors)
    /\ UNCHANGED log

\* mode 1: `for _ in 0..num_packets`: either the next call of read_packet on the
\* parser itself, or the return
ForNumPackets ==
    /\ Running("read_packets", "for")
    /\ IF Len(Top.packets) < Top.num_packets
       THEN Continue(cursors, Append(stack, PacketFrame(Top.cur, TopCursor.index)))
       ELSE ReturnPackets(Top, cursors)
    /\ UNCHANGED log

\* read_packet after read_packets returned: OperatorType::from, Packet::operator
BuildOperator ==
    /\ Running("read_packet", "operator")
    /\ LET kind == OperatorTypeFrom(Top.id)
       IN  IF kind = "" THEN Abort("Operator not supported.", cursors)
           ELSE ReturnPacket(PacketOperator(Top.version, Top.id, Top.packets, kind),
                             cursors)
    /\ UNCHANGED log

-----------------------------------------------------------------------------
(* The folds over a Packet tree                                            *)

RECURSIVE CountVersion(_)
RECURSIVE CountVersionLoop(_, _)

\* the sum that stops after the first child
CountVersionLoopFirst(packets, i) ==
    IF i > Len(packets) \/ i > 1 THEN 0
    ELSE CountVersion(packets[i])

\* Operator::count_version: the sum over the children
CountVersionLoop(packets, i) ==
    IF i > Len(packets) THEN 0
    ELSE CountVersion(packets[i]) + CountVersionLoop(packets, i + 1)

\* a count that leaves out the version of the operator itself
CountVersionChildrenOnly(p) ==
    IF p.data.tag = "Operator" THEN CountVersionLoop(p.data.packets, 1)
    ELSE p.version

\* Packet::count_version
CountVersion(p) ==
    LET count == IF p.data.tag = "Operator" THEN CountVersionLoop(p.data.packets, 1)
                 ELSE 0
    IN  p.version + count

RECURSIVE Calculate(_, _)
RECURSIVE SumLoop(_, _, _, _)
RECURSIVE ProductLoop(_, _, _, _)
RECURSIVE MinMaxLoop(_, _, _, _, _)

\* iter.map(|p| p.calculate()).sum::<u64>(): [panic, value]
SumLoop(packets, i, acc, chk) ==
    IF i > Len(packets) THEN [panic |-> "", value |-> acc]
    ELSE LET v == Calculate(packets[i], chk)
             s == U64Add(acc, v.value)
         IN  IF v.panic # "" THEN v
             ELSE IF s.overflow /\ chk
             THEN [panic |-> "attempt to add with overflow", value |-> U64Zero]
             ELSE SumLoop(packets, i + 1, s.value, chk)

\* iter.fold(1_u64, |product, p| product * p.calculate()): [panic, value]
ProductLoop(packets, i, acc, chk) ==
    IF i > Len(packets) THEN [panic |-> "", value |-> acc]
    ELSE LET v == Calculate(packets[i], chk)
             m == U64Mul(acc, v.value)
         IN  IF v.panic # "" THEN v
             ELSE IF m.overflow /\ chk
             THEN [panic |-> "attempt to multiply with overflow", value |-> U64Zero]
             ELSE ProductLoop(packets, i + 1, m.value, chk)

\* iter.map(|p| p.calculate()).min() / .max(): [panic, value: Option<u64>]
MinMaxLoop(packets, i, best, max, chk) ==
    IF i > Len(packets) THEN [panic |-> "", value |-> best]
    ELSE LET v == Calculate(packets[i], chk)
         IN  IF v.panic # "" THEN [panic |-> v.panic, value |-> <<>>]
             ELSE IF best = <<>> THEN MinMaxLoop(packets, i + 1, <<v.value>>, max, chk)
             ELSE IF max /\ ~U64Less(v.value, best[1])
             THEN MinMaxLoop(packets, i + 1, <<v.value>>, max, chk)
             ELSE IF ~max /\ U64Less(v.value, best[1])
             THEN MinMaxLoop(packets, i + 1, <<v.value>>, max, chk)
             ELSE MinMaxLoop(packets, i + 1, best, max, chk)

\* the comparisons with >= for > and <= for <
CompareInclusive(packets, kind, chk) ==
    IF Len(packets) < 1 THEN [panic |-> "index out of bounds", value |-> U64Zero]
    ELSE LET a == Calculate(packets[1], chk)
         IN  IF a.panic # "" THEN a
             ELSE IF Len(packets) < 2
             THEN [panic |-> "index out of bounds", value |-> U64Zero]
             ELSE LET b == Calculate(packets[2], chk)
                      holds == CASE kind = "GreaterThan" -> ~U64Less(a.value, b.value)
                                 [] kind = "LessThan" -> ~U64Less(b.value, a.value)
                                 [] OTHER -> a.value = b.value
                  IN  IF b.panic # "" THEN b
                      ELSE [panic |-> "", value |-> IF holds THEN U64One ELSE U64Zero]

\* the comparisons of the first child against the last one
CompareLast(packets, kind, chk) ==
    IF Len(packets) < 1 THEN [panic |-> "index out of bounds", value |-> U64Zero]
    ELSE LET a == Calculate(packets[1], chk)
         IN  IF a.panic # "" THEN a
             ELSE IF Len(packets) < 2
             THEN [panic |-> "index out of bounds", value |-> U64Zero]
             ELSE LET b == Calculate(packets[Len(packets)], chk)
                      holds == CASE kind = "GreaterThan" -> U64Less(b.value, a.value)
                                 [] kind = "LessThan" -> U64Less(a.value, b.value)
                                 [] OTHER -> a.value = b.value
                  IN  IF b.panic # "" THEN b
                      ELSE [panic |-> "", value |-> IF holds THEN U64One ELSE U64Zero]

\* the three comparisons of Operator::calculate: self.packets[0] against self.packets[1]
Compare(packets, kind, chk) ==
    IF Len(packets) < 1 THEN [panic |-> "index out of bounds", value |-> U64Zero]
    ELSE LET a == Calculate(packets[1], chk)
         IN  IF a.panic # "" THEN a
             ELSE IF Len(packets) < 2
             THEN [panic |-> "index out of bounds", value |-> U64Zero]
             ELSE LET b == Calculate(packets[2], chk)
                      holds == CASE kind = "GreaterThan" -> U64Less(b.value, a.value)
                                 [] kind = "LessThan" -> U64Less(a.value, b.value)
                                 [] OTHER -> a.value = b.value
                  IN  IF b.panic # "" THEN b
                      ELSE [panic |-> "", value |-> IF holds THEN U64One ELSE U64Zero]

\* the fold with the arms of Min and Max exchanged
OperatorCalculateSwapped(op, chk) ==
    CASE op.kind = "Sum" -> SumLoop(op.packets, 1, U64Zero, chk)
      [] op.kind = "Product" -> ProductLoop(op.packets, 1, U64One, chk)
      [] op.kind = "Min" ->
            LET m == MinMaxLoop(op.packets, 1, <<>>, TRUE, chk)
            IN  [panic |-> m.panic,
                 value |-> IF m.value = <<>> THEN U64Zero ELSE m.value[1]]
      [] op.kind = "Max" ->
            LET m == MinMaxLoop(op.packets, 1, <<>>, FALSE, chk)
            IN  [panic |-> m.panic,
                 value |-> IF m.value = <<>> THEN U64Zero ELSE m.value[1]]
      [] OTHER -> Compare(op.packets, op.kind, chk)

\* Operator::calculate: [panic, value]
OperatorCalculate(op, chk) ==
    CASE op.kind = "Sum" -> SumLoop(op.packets, 1, U64Zero, chk)
      [] op.kind = "Product" -> ProductLoop(op.packets, 1, U64One, chk)
      [] op.kind = "Min" ->
            LET m == MinMaxLoop(op.packets, 1, <<>>, FALSE, chk)
            IN  [panic |-> m.panic,
                 value |-> IF m.value = <<>> THEN U64Zero ELSE m.value[1]]
      [] op.kind = "Max" ->
            LET m == MinMaxLoop(op.packets, 1, <<>>, TRUE, chk)
            IN  [panic |-> m.panic,
                 value |-> IF m.value = <<>> THEN U64Zero ELSE m.value[1]]
      [] OTHER -> Compare(op.packets, op.kind, chk)

\* Packet::calculate: [panic, value]
Calculate(p, chk) ==
    IF p.data.tag = "Literal" THEN [panic |-> "", value |-> p.data.literal]
    ELSE OperatorCalculate(p.data, chk)

-----------------------------------------------------------------------------
(* main and the tests: what a run starts from, and the steps around decode *)

NoOperation ==
    [op |-> "none", arg |-> 0, before |-> NewCursor(<<>>, 0), panic |-> "", value |-> 0]

\* parse_hex_input(hexadecimal)
ParseHex ==
    /\ pc = "start"
    /\ source.kind = "hexadecimal"
    /\ input' = ParseHexInput(source.text)
    /\ pc' = "reader"
    /\ UNCHANGED <<source, checked, cursors, stack, panic, packet, versions, value, last, log>>

\* BinaryReader::new(input) on a binary String
NewReader ==
    /\ pc = "start"
    /\ source.kind = "binary"
    /\ input' = source.text
    /\ pc' = "reader"
    /\ UNCHANGED <<source, checked, cursors, stack, panic, packet, versions, value, last, log>>

\* BinaryReader::decode: Parser::from(input), then the outermost read_packet
Decode ==
    /\ pc = "reader"
    /\ cursors' = <<NewCursor(BinaryBytes(input), 0)>>
    /\ stack' = <<PacketFrame(1, 0)>>
    /\ pc' = "decoding"
    /\ UNCHANGED <<source, checked, input, panic, packet, versions, value, last, log>>

\* main: packet.count_version()
DoCountVersion ==
    /\ pc = "decoded"
    /\ versions' = <<CountVersion(packet[1])>>
    /\ pc' = "counted"
    /\ UNCHANGED <<source, checked, input, cursors, stack, panic, packet, value, last, log>>

\* main: packet.calculate()
DoCalculate ==
    /\ pc = "counted"
    /\ LET r == Calculate(packet[1], checked)
       IN  IF r.panic # ""
           THEN /\ pc' = "panic"
                /\ panic' = r.panic
                /\ UNCHANGED value
           ELSE /\ pc' = "done"
                /\ value' = <<r.value>>
                /\ UNCHANGED panic
    /\ UNCHANGED <<source, checked, input, cursors, stack, packet, versions, last, log>>

-----------------------------------------------------------------------------
(* The inputs of the runs                                                  *)

MaxChildren == 2

MaxSlack == 2

MaxPad == 2

\* the w-bit field holding n, the most significant bit first
Bits(n, w) == [i \in 1..w |-> (n \div (2 ^ (w - i))) % 2]

BitString(bits) == [i \in 1..Len(bits) |-> DigitChars[bits[i] + 1]]

RECURSIVE Concat(_)
Concat(seqs) ==
    IF seqs = <<>> THEN <<>>
    ELSE IF Len(seqs) = 1 THEN seqs[1]
    ELSE LET m == Len(seqs) \div 2
         IN  Concat(SubSeq(seqs, 1, m)) \o Concat(SubSeq(seqs, m + 1, Len(seqs)))

SeqsUpTo(S, n) == UNION {[1..k -> S] : k \in 0..n}

Repeat(b, k) == [i \in 1..k |-> b]

\* the 5-bit groups of a literal holding the nibbles, the last with flag 0
Groups(nibbles) ==
    Concat([i \in 1..Len(nibbles) |->
              <<IF i < Len(nibbles) THEN 1 ELSE 0>> \o Bits(nibbles[i], 4)])

LiteralBits(version, nibbles) == Bits(version, 3) \o Bits(4, 3) \o Groups(nibbles)

Operator0Bits(version, id, total_length, body) ==
    Bits(version, 3) \o Bits(id, 3) \o <<0>> \o Bits(total_length, 15) \o body

Operator1Bits(version, id, num_packets, body) ==
    Bits(version, 3) \o Bits(id, 3) \o <<1>> \o Bits(num_packets, 11) \o body

OperatorIds == {0, 1, 2, 3, 5, 6, 7}

Pads == {Repeat(0, k) : k \in 0..MaxPad} \cup {<<1>>}

\* two literals: 10 in one group (11 bits) and 20 in two groups (16 bits)
ChildPalette == {LiteralBits(6, <<10>>), LiteralBits(2, <<1, 4>>)}

ChildLists == SeqsUpTo(ChildPalette, MaxChildren)

\* literals of every version, of one to seventeen groups, followed by padding
LiteralInputs ==
    {LiteralBits(v, <<7>>) \o pad : v \in 0..7, pad \in Pads}
    \cup {LiteralBits(6, <<7, 14, 5>>) \o pad : pad \in Pads}
    \cup {LiteralBits(3, Repeat(15, k)) : k \in {15, 16, 17}}
    \cup {LiteralBits(3, <<1>> \o Repeat(0, 16)), LiteralBits(3, <<0>> \o Repeat(9, 16))}

\* operators of length type 0 whose declared length misses the children's bits by
\* up to MaxSlack either way
Operator0Inputs ==
    UNION {
      {Operator0Bits(1, id, Len(Concat(cs)) + d, Concat(cs) \o pad) :
          id \in OperatorIds,
          d \in {e \in -MaxSlack..MaxSlack : Len(Concat(cs)) + e >= 0},
          pad \in Pads} : cs \in ChildLists}

\* operators of length type 1 whose declared count misses the children by one
Operator1Inputs ==
    UNION {
      {Operator1Bits(1, id, n, Concat(cs) \o pad) :
          id \in OperatorIds,
          n \in {m \in 0..(MaxChildren + 1) : m >= Len(cs) - 1 /\ m <= Len(cs) + 1},
          pad \in Pads} : cs \in ChildLists}

\* operators inside operators, in both framings
NestedInputs ==
    LET ten == LiteralBits(6, <<10>>)
        inner0(id) == Operator0Bits(2, id, 27, ten \o LiteralBits(2, <<1, 4>>))
        inner1(id) == Operator1Bits(3, id, 2, ten \o ten)
        empty1(id) == Operator1Bits(4, id, 0, <<>>)
    IN  UNION {
          {Operator1Bits(7, id, 2, inner0(5) \o inner1(6)),
           Operator1Bits(7, id, 3, inner1(0) \o ten \o inner0(1)),
           Operator0Bits(7, id, 65, inner0(2) \o inner1(7)),
           Operator0Bits(7, id, 66, inner0(3) \o inner1(id) \o <<0>>),
           Operator0Bits(7, id, 40 + 12, inner1(id) \o <<0>> \o ten \o <<1>>),
           Operator1Bits(7, id, 2, empty1(id) \o ten),
           Operator0Bits(7, id, 18 + 11, empty1(id) \o ten)} : id \in OperatorIds}

Prefixes(b) == {SubSeq(b, 1, k) : k \in 0..Len(b)}

\* every truncation of two well-formed transmissions
TruncatedInputs ==
    Prefixes(Operator1Bits(7, 3, 2,
                Operator0Bits(2, 6, 27, LiteralBits(6, <<10>>) \o LiteralBits(2, <<1, 4>>))
                \o LiteralBits(1, <<3>>)))
    \cup Prefixes(Operator0Bits(1, 0, 22, LiteralBits(6, <<10>>) \o LiteralBits(2, <<9>>)))

BinarySources ==
    {[kind |-> "binary", text |-> BitString(b)] :
        b \in LiteralInputs \cup Operator0Inputs \cup Operator1Inputs
              \cup NestedInputs \cup TruncatedInputs}

HexD2FE28 ==
    <<"D", "2", "F", "E", "2", "8">>

Hex38006F ==
    <<"3", "8", "0", "0", "6", "F", "4", "5", "2", "9", "1", "2", "0", "0">>

HexEE00D4 ==
    <<"E", "E", "0", "0", "D", "4", "0", "C", "8", "2", "3", "0", "6", "0">>

Hex8A004A ==
    <<"8", "A", "0", "0", "4", "A", "8", "0", "1", "A", "8", "0", "0", "2", "F", "4", "7", "8">>

Hex620080 ==
    <<"6", "2", "0", "0", "8", "0", "0", "0", "1", "6", "1", "1", "5", "6", "2", "C", "8", "8", "0", "2", "1", "1", "8", "E", "3", "4">>

HexC00150 ==
    <<"C", "0", "0", "1", "5", "0", "0", "0", "0", "1", "6", "1", "1", "5", "A", "2", "E", "0", "8", "0", "2", "F", "1", "8", "2", "3", "4", "0">>

HexA0016C ==
    <<"A", "0", "0", "1", "6", "C", "8", "8", "0", "1", "6", "2", "0", "1", "7", "C", "3", "6", "8", "6", "B", "1", "8", "A", "3", "D", "4", "7", "8", "0">>

HexC200B4 ==
    <<"C", "2", "0", "0", "B", "4", "0", "A", "8", "2">>

Hex04005A ==
    <<"0", "4", "0", "0", "5", "A", "C", "3", "3", "8", "9", "0">>

Hex880086 ==
    <<"8", "8", "0", "0", "8", "6", "C", "3", "E", "8", "8", "1", "1", "2">>

HexCE00C4 ==
    <<"C", "E", "0", "0", "C", "4", "3", "D", "8", "8", "1", "1", "2", "0">>

HexD8005A ==
    <<"D", "8", "0", "0", "5", "A", "C", "2", "A", "8", "F", "0">>

HexF600BC ==
    <<"F", "6", "0", "0", "B", "C", "2", "D", "8", "F">>

Hex9C005A ==
    <<"9", "C", "0", "0", "5", "A", "C", "2", "F", "8", "F", "0">>

Hex9C0141 ==
    <<"9", "C", "0", "1", "4", "1", "0", "8", "0", "2", "5", "0", "3", "2", "0", "F", "1", "8", "0", "2", "1", "0", "4", "A", "0", "8">>

HexSources ==
    {[kind |-> "hexadecimal", text |-> t] :
        t \in {HexD2FE28, Hex38006F, HexEE00D4, Hex8A004A, Hex620080, HexC00150, HexA0016C, HexC200B4, Hex04005A, Hex880086, HexCE00C4, HexD8005A, HexF600BC, Hex9C005A, Hex9C0141,
               <<"d", "2", "f", "e", "2", "8">>,
               <<"D", "2", " ", "F", "E", "2", "8", "\n">>,
               <<"D", "2", "G", "F", "E", "2", "8">>}}

Init ==
    /\ source \in HexSources \cup BinarySources
    /\ checked \in BOOLEAN
    /\ input = <<>>
    /\ cursors = <<>>
    /\ stack = <<>>
    /\ pc = "start"
    /\ panic = ""
    /\ packet = <<>>
    /\ versions = <<>>
    /\ value = <<>>
    /\ last = NoOperation
    /\ log = <<>>

Next ==
    \/ ParseHex
    \/ NewReader
    \/ Decode
    \/ ReadHeader
    \/ ReadLiteral
    \/ ReadMode
    \/ ReadTotalLength
    \/ WhileNotEmpty
    \/ ReadNumPackets
    \/ ForNumPackets
    \/ BuildOperator
    \/ DoCountVersion
    \/ DoCalculate

Spec == Init /\ [][Next]_vars

\* buffers for the runs to their end: the truncations, and operators of length type 0
\* that declare no bits, one bit, the bits of their children, or a few more
FairInputs ==
    LET whole == Operator1Bits(7, 3, 2,
                     Operator0Bits(2, 6, 27, LiteralBits(6, <<10>>) \o LiteralBits(2, <<1, 4>>))
                     \o LiteralBits(1, <<3>>))
    IN  {SubSeq(whole, 1, k) : k \in {0, 4, 7, 12, 30, 45, 60, 70, Len(whole)}}
        \cup {Operator0Bits(2, 0, n, LiteralBits(6, <<10>>) \o <<0, 0, 0>>) : n \in {0, 1, 11, 14}}

FairInit ==
    /\ source \in {[kind |-> "binary", text |-> BitString(b)] : b \in FairInputs}
    /\ checked \in BOOLEAN
    /\ input = <<>>
    /\ cursors = <<>>
    /\ stack = <<>>
    /\ pc = "start"
    /\ panic = ""
    /\ packet = <<>>
    /\ versions = <<>>
    /\ value = <<>>
    /\ last = NoOperation
    /\ log = <<>>

FairNext ==
    \/ NewReader
    \/ Decode
    \/ ReadHeader
    \/ ReadLiteral
    \/ ReadMode
    \/ ReadTotalLength
    \/ WhileNotEmpty
    \/ ReadNumPackets
    \/ ForNumPackets
    \/ BuildOperator

\* the program is one thread that runs on until it returns or aborts: a step that
\* can be taken is taken
SpecFair == FairInit /\ [][FairNext]_vars /\ WF_vars(FairNext)

-----------------------------------------------------------------------------
(* The BinaryCursor on its own, as tests::check_cursor_read_bits drives it *)

MaxBufLen == 3

MaxSkip == 3

MaxIndex == 26

\* the String of tests::check_cursor_read_bits, one of alternating bits, and every
\* String of up to MaxBufLen binary digits
CursorTexts ==
    {BitString(Bits(13827624, 24)), BitString(Bits(43690, 17))}
    \cup {BitString(b) : b \in SeqsUpTo({0, 1}, MaxBufLen)}

CursorInit ==
    /\ source \in {[kind |-> "cursor", text |-> t] : t \in CursorTexts}
    /\ checked \in BOOLEAN
    /\ input = <<>>
    /\ cursors = <<NewCursor(BinaryBytes(source.text), 0)>>
    /\ stack = <<>>
    /\ pc = "cursor"
    /\ panic = ""
    /\ packet = <<>>
    /\ versions = <<>>
    /\ value = <<>>
    /\ last = NoOperation
    /\ log = <<>>

CursorStep(op, arg, r) ==
    /\ last' = [op |-> op, arg |-> arg, before |-> cursors[1],
                panic |-> r.panic, value |-> r.value]
    /\ cursors' = <<r.cursor>>
    /\ pc' = IF r.panic # "" THEN "panic" ELSE pc
    /\ panic' = r.panic
    /\ UNCHANGED <<source, checked, input, stack, packet, versions, value, log>>

\* cursor.read_bits(bits)
CursorReadBits ==
    /\ pc = "cursor"
    /\ cursors[1].index <= MaxIndex
    /\ \E bits \in 0..17 : CursorStep("read_bits", bits, ReadBits(cursors[1], bits))

\* cursor.skip_bits(num_bits)
CursorSkipBits ==
    /\ pc = "cursor"
    /\ \E num_bits \in 0..MaxSkip :
          /\ cursors[1].index + num_bits <= MaxIndex
          /\ CursorStep("skip_bits", num_bits,
                        [panic |-> "", value |-> 0,
                         cursor |-> SkipBits(cursors[1], num_bits)])

\* cursor.seek_next_byte()
CursorSeekNextByte ==
    /\ pc = "cursor"
    /\ cursors[1].index <= MaxIndex
    /\ CursorStep("seek_next_byte", 0,
                  [panic |-> "", value |-> 0, cursor |-> SeekNextByte(cursors[1])])

\* cursor.is_empty()
CursorIsEmpty ==
    /\ pc = "cursor"
    /\ LET e == IsEmpty(cursors[1], checked)
       IN  CursorStep("is_empty", 0,
                      [panic |-> e.panic, value |-> IF e.value THEN 1 ELSE 0,
                       cursor |-> cursors[1]])

CursorNext ==
    \/ CursorReadBits
    \/ CursorSkipBits
    \/ CursorSeekNextByte
    \/ CursorIsEmpty

SpecCursor == CursorInit /\ [][CursorNext]_vars

-----------------------------------------------------------------------------
(* Literals of known value, encoded and then decoded                       *)

MaxLead == 2

\* u64 values: small ones, the example 2021, one per length, and the largest
LiteralValues ==
    {U64Zero, U64One,
     [i \in 1..U64Nibbles |-> IF i = U64Nibbles THEN 15 ELSE 0],
     [i \in 1..U64Nibbles |-> IF i = U64Nibbles - 1 THEN 1 ELSE 0],
     [i \in 1..U64Nibbles |-> IF i > U64Nibbles - 3 THEN <<7, 14, 5>>[i - U64Nibbles + 3] ELSE 0],
     [i \in 1..U64Nibbles |-> IF i > 8 THEN 10 ELSE 0],
     [i \in 1..U64Nibbles |-> IF i = 8 THEN 1 ELSE 0],
     [i \in 1..U64Nibbles |-> IF i = 2 THEN 3 ELSE 0],
     [i \in 1..U64Nibbles |-> IF i = 1 THEN 8 ELSE 0],
     [i \in 1..U64Nibbles |-> i - 1],
     [i \in 1..U64Nibbles |-> 15]}

\* the groups of a value: its hexadecimal digits without leading zeros (one digit 0
\* for zero) behind `lead` groups of payload 0
LiteralNibbles(v, lead) ==
    LET nz == {i \in 1..Len(v) : v[i] # 0}
        first == IF nz = {} THEN Len(v) ELSE CHOOSE i \in nz : \A j \in nz : i <= j
    IN  Repeat(0, lead) \o SubSeq(v, first, Len(v))

LiteralSources ==
    {[kind |-> "binary", text |-> BitString(LiteralBits(ver, LiteralNibbles(v, lead))),
      value |-> v, lead |-> lead] :
        ver \in {0, 5}, v \in LiteralValues, lead \in 0..MaxLead}

LiteralInit ==
    /\ source \in LiteralSources
    /\ checked \in BOOLEAN
    /\ input = <<>>
    /\ cursors = <<>>
    /\ stack = <<>>
    /\ pc = "start"
    /\ panic = ""
    /\ packet = <<>>
    /\ versions = <<>>
    /\ value = <<>>
    /\ last = NoOperation
    /\ log = <<>>

LiteralNext ==
    \/ NewReader
    \/ Decode
    \/ ReadHeader
    \/ ReadLiteral

SpecLiteral == LiteralInit /\ [][LiteralNext]_vars

-----------------------------------------------------------------------------
(* The folds on Packet trees built directly, as the tests build them       *)

MaxOperands == 2

\* nibble k (0 = least significant) of a number below 2^31
Nibble(n, k) == IF k >= 8 THEN 0 ELSE (n \div (16 ^ k)) % 16

\* the u64 holding the natural number n
U64Of(n) == [i \in 1..U64Nibbles |-> Nibble(n, U64Nibbles - i)]

\* 2^63, 2^32 and 2^64 - 1
U64High == [i \in 1..U64Nibbles |-> IF i = 1 THEN 8 ELSE 0]

U64Half == [i \in 1..U64Nibbles |-> IF i = 8 THEN 1 ELSE 0]

U64Max == [i \in 1..U64Nibbles |-> 15]

Leaves ==
    {PacketLiteral(6, 4, U64Of(0)), PacketLiteral(1, 4, U64Of(3)),
     PacketLiteral(7, 4, U64Of(20)), PacketLiteral(2, 4, U64High),
     PacketLiteral(0, 4, U64Half), PacketLiteral(5, 4, U64Max)}

\* operators over literals only
Flat ==
    {PacketOperator(3, id, ps, OperatorTypeFrom(id)) :
        id \in OperatorIds, ps \in SeqsUpTo(Leaves, MaxOperands)}

\* operators over operators and literals
Inner ==
    {PacketLiteral(1, 4, U64Of(3)),
     PacketOperator(2, 0, <<PacketLiteral(1, 4, U64Of(3)), PacketLiteral(7, 4, U64Of(20))>>, "Sum"),
     PacketOperator(4, 1, <<PacketLiteral(0, 4, U64Half), PacketLiteral(0, 4, U64Half)>>, "Product"),
     PacketOperator(5, 6, <<PacketLiteral(1, 4, U64Of(3)), PacketLiteral(7, 4, U64Of(20))>>, "LessThan"),
     PacketOperator(7, 3, <<PacketLiteral(2, 4, U64High), PacketLiteral(5, 4, U64Max)>>, "Max")}

Nested ==
    {PacketOperator(1, id, ps, OperatorTypeFrom(id)) :
        id \in OperatorIds, ps \in SeqsUpTo(Inner, MaxOperands)}

Trees == Leaves \cup Flat \cup Nested

EvalInit ==
    /\ source = [kind |-> "packet", text |-> <<>>]
    /\ checked \in BOOLEAN
    /\ input = <<>>
    /\ cursors = <<>>
    /\ stack = <<>>
    /\ pc = "decoded"
    /\ panic = ""
    /\ packet \in {<<t>> : t \in Trees}
    /\ versions = <<>>
    /\ value = <<>>
    /\ last = NoOperation
    /\ log = <<>>

EvalNext ==
    \/ DoCountVersion
    \/ DoCalculate

SpecEval == EvalInit /\ [][EvalNext]_vars

-----------------------------------------------------------------------------
(* decode as a function of the buffer: the same calls, run to completion   *)

RECURSIVE ReadLiteralLoop(_, _)
\* Parser::read_literal from cursor c, `result` gathered so far: [panic, value, cursor]
ReadLiteralLoop(c, result) ==
    LET r == ReadBits(c, 5)
        next == ShlAdd(result, r.value)
    IN  IF r.panic # "" THEN [panic |-> r.panic, value |-> result, cursor |-> r.cursor]
        ELSE IF (r.value \div 16) % 2 >= 1 THEN ReadLiteralLoop(r.cursor, next)
        ELSE [panic |-> "", value |-> next, cursor |-> r.cursor]

RECURSIVE ReadPacket(_, _)
RECURSIVE ReadPackets(_, _)
RECURSIVE WhileLoop(_, _, _)
RECURSIVE ForLoop(_, _, _, _)

\* the loop `while !sub_parser.is_empty()`: [panic, packets, cursor]
WhileLoop(sub, result, chk) ==
    LET e == IsEmpty(sub, chk)
        p == ReadPacket(sub, chk)
    IN  IF e.panic # "" THEN [panic |-> e.panic, packets |-> result, cursor |-> sub]
        ELSE IF e.value THEN [panic |-> "", packets |-> result, cursor |-> sub]
        ELSE IF p.panic # "" THEN [panic |-> p.panic, packets |-> result, cursor |-> p.cursor]
        ELSE WhileLoop(p.cursor, Append(result, p.packet[1]), chk)

\* the loop `for _ in 0..num_packets`: [panic, packets, cursor]
ForLoop(c, num_packets, sub_packets, chk) ==
    LET p == ReadPacket(c, chk)
    IN  IF Len(sub_packets) >= num_packets
        THEN [panic |-> "", packets |-> sub_packets, cursor |-> c]
        ELSE IF p.panic # ""
        THEN [panic |-> p.panic, packets |-> sub_packets, cursor |-> p.cursor]
        ELSE ForLoop(p.cursor, num_packets, Append(sub_packets, p.packet[1]), chk)

\* BinaryReader::read_packets: [panic, packets, cursor]
ReadPackets(c, chk) ==
    LET mode == ReadBits(c, 1)
        total_length == ReadBits(mode.cursor, 15)
        s == Slice(total_length.cursor, total_length.value)
        w == WhileLoop(NewCursor(s.bytes, total_length.cursor.base + total_length.cursor.index),
                       <<>>, chk)
        num_packets == ReadBits(mode.cursor, 11)
    IN  IF mode.panic # "" THEN [panic |-> mode.panic, packets |-> <<>>, cursor |-> c]
        ELSE IF mode.value = 0
        THEN IF total_length.panic # ""
             THEN [panic |-> total_length.panic, packets |-> <<>>, cursor |-> mode.cursor]
             ELSE IF s.panic # ""
             THEN [panic |-> s.panic, packets |-> <<>>, cursor |-> total_length.cursor]
             ELSE IF w.panic # ""
             THEN [panic |-> w.panic, packets |-> <<>>, cursor |-> total_length.cursor]
             ELSE [panic |-> "", packets |-> w.packets,
                   cursor |-> SkipBits(total_length.cursor, total_length.value)]
        ELSE IF num_packets.panic # ""
        THEN [panic |-> num_packets.panic, packets |-> <<>>, cursor |-> mode.cursor]
        ELSE ForLoop(num_packets.cursor, num_packets.value, <<>>, chk)

\* BinaryReader::read_packet: [panic, packet: Option<Packet>, cursor]
ReadPacket(c, chk) ==
    LET version == ReadBits(c, 3)
        id == ReadBits(version.cursor, 3)
        literal == ReadLiteralLoop(id.cursor, U64Zero)
        packets == ReadPackets(id.cursor, chk)
        kind == OperatorTypeFrom(id.value)
    IN  IF version.panic # ""
        THEN [panic |-> version.panic, packet |-> <<>>, cursor |-> version.cursor]
        ELSE IF id.panic # ""
        THEN [panic |-> id.panic, packet |-> <<>>, cursor |-> id.cursor]
        ELSE IF id.value = 4
        THEN IF literal.panic # ""
             THEN [panic |-> literal.panic, packet |-> <<>>, cursor |-> literal.cursor]
             ELSE [panic |-> "",
                   packet |-> <<PacketLiteral(version.value, id.value, literal.value)>>,
                   cursor |-> literal.cursor]
        ELSE IF packets.panic # ""
        THEN [panic |-> packets.panic, packet |-> <<>>, cursor |-> packets.cursor]
        ELSE IF kind = ""
        THEN [panic |-> "Operator not supported.", packet |-> <<>>, cursor |-> packets.cursor]
        ELSE [panic |-> "",
              packet |-> <<PacketOperator(version.value, id.value, packets.packets, kind)>>,
              cursor |-> packets.cursor]

\* the greedy driver: read_packet again while bits are left, the last packet wins
RECURSIVE DecodeBytesGreedyLoop(_, _, _)
DecodeBytesGreedyLoop(c, got, chk) ==
    LET p == ReadPacket(c, chk)
    IN  IF got.packet # <<>> /\ p.panic # "" THEN got
        ELSE IF p.panic # "" THEN p
        ELSE DecodeBytesGreedyLoop(p.cursor, p, chk)

DecodeBytesGreedy(bytes, chk) ==
    DecodeBytesGreedyLoop(NewCursor(bytes, 0), [panic |-> "", packet |-> <<>>,
                                                cursor |-> NewCursor(bytes, 0)], chk)

\* BinaryReader::decode on a Parser over `bytes`: one call of read_packet
DecodeBytes(bytes, chk) == ReadPacket(NewCursor(bytes, 0), chk)

-----------------------------------------------------------------------------
(* Properties                                                              *)

RECURSIVE Value(_)
\* the number whose binary expansion is `bits`, the earliest bit the most significant
Value(bits) ==
    IF bits = <<>> THEN 0
    ELSE IF Len(bits) = 1 THEN bits[1]
    ELSE LET m == Len(bits) \div 2
         IN  Value(SubSeq(bits, 1, m)) * (2 ^ (Len(bits) - m))
             + Value(SubSeq(bits, m + 1, Len(bits)))

\* read_packets has just returned, in mode m, to the read_packet on top of the stack
ReturnedMode(m) ==
    /\ pc = "decoding"
    /\ stack # <<>>
    /\ Top.fn = "read_packet"
    /\ Top.pc = "operator"
    /\ Top.sub[1].mode = m

\* the header found at index `from` of `bytes` is the one stored in packet p
HeaderAt(bytes, from, p) ==
    /\ p.version = Value(SubSeq(bytes, from + 1, from + 3))
    /\ p.type_id = Value(SubSeq(bytes, from + 4, from + 6))

\* C1: when read_packets returns for length type 0, total_length is the 15 bits after
\* the length-type bit, the sub-view held exactly the next total_length bits, the
\* children were decoded from it one after the other from its start until it reported
\* exhaustion, and the parent cursor stands at (index after the length field) +
\* total_length, whatever the children consumed.
C1_TotalLengthFraming ==
    ReturnedMode(0) =>
        LET f == Top.sub[1]
            view == f.sub[1]
            parent == cursors[f.cur]
            n == Len(f.spans)
        IN  /\ f.after = f.start + 1 + 15
            /\ f.total_length = Value(SubSeq(parent.bytes, f.start + 2, f.start + 16))
            /\ view.bytes = SubSeq(parent.bytes, f.after + 1, f.after + f.total_length)
            /\ Len(f.packets) = n
            /\ \A i \in 1..n :
                  /\ f.spans[i].cur = f.cur + 1
                  /\ f.spans[i].from = IF i = 1 THEN 0 ELSE f.spans[i - 1].to
                  /\ f.spans[i].from < f.spans[i].to
                  /\ f.spans[i].from < Len(view.bytes) - 1
                  /\ HeaderAt(view.bytes, f.spans[i].from, f.packets[i])
            /\ view.index = IF n = 0 THEN 0 ELSE f.spans[n].to
            /\ view.index >= Len(view.bytes) - 1
            /\ parent.index = f.after + f.total_length

\* C1 witness: two children that consumed one bit less than the declared total_length
C1_Witness ==
    /\ ReturnedMode(0)
    /\ Len(Top.sub[1].packets) = 2
    /\ Top.sub[1].sub[1].index = Top.sub[1].total_length - 1

\* C2: a decode that returned a tree met no length-type-0 operator whose children
\* consumed a number of bits other than its declared total_length (such a
\* transmission is to fail with LengthMismatch).
C2_LengthMismatch ==
    pc = "decoded" =>
        \A i \in 1..Len(log) : log[i].op = "skip_bits" => log[i].value = log[i].bits

\* C3: when read_packets returns for length type 1, num_packets is the 11 bits after
\* the length-type bit, read_packet ran exactly num_packets times on the parent cursor
\* itself, each call starting where the previous one ended, and the parent cursor
\* stands right after the last child.
C3_PacketCountFraming ==
    ReturnedMode(1) =>
        LET f == Top.sub[1]
            parent == cursors[f.cur]
            n == Len(f.spans)
        IN  /\ f.after = f.start + 1 + 11
            /\ f.num_packets = Value(SubSeq(parent.bytes, f.start + 2, f.start + 12))
            /\ n = f.num_packets
            /\ Len(f.packets) = f.num_packets
            /\ \A i \in 1..n :
                  /\ f.spans[i].cur = f.cur
                  /\ f.spans[i].from = IF i = 1 THEN f.after ELSE f.spans[i - 1].to
                  /\ f.spans[i].from < f.spans[i].to
                  /\ HeaderAt(parent.bytes, f.spans[i].from, f.packets[i])
            /\ parent.index = IF n = 0 THEN f.after ELSE f.spans[n].to

\* C3 witness: an operator of length type 1 that declared three packets and got them
C3_Witness ==
    /\ ReturnedMode(1)
    /\ Top.sub[1].num_packets = 3
    /\ Len(Top.sub[1].packets) = 3

RECURSIVE GroupNibbles(_, _)
\* the low 4 bits of the 5-bit groups of `bytes` from index `from`, up to and
\* including the first group whose top bit is 0
GroupNibbles(bytes, from) ==
    IF from + 5 > Len(bytes) THEN <<>>
    ELSE <<Value(SubSeq(bytes, from + 2, from + 5))>>
         \o (IF bytes[from + 1] = 0 THEN <<>> ELSE GroupNibbles(bytes, from + 5))

\* a natural number as its hexadecimal digits, most significant first, no leading zero
Trim(s) ==
    LET nz == {i \in 1..Len(s) : s[i] # 0}
    IN  IF nz = {} THEN <<>>
        ELSE SubSeq(s, CHOOSE i \in nz : \A j \in nz : i <= j, Len(s))

\* C4: a literal packet holds the number whose hexadecimal digits are the low 4 bits
\* of its groups, the first group the most significant, and reading it consumed the
\* 5 bits of each group up to the first one whose top bit is 0, and nothing more.
C4_ReadLiteral ==
    (pc = "decoded" /\ packet[1].data.tag = "Literal") =>
        LET groups == GroupNibbles(cursors[1].bytes, 6)
        IN  /\ Trim(packet[1].data.literal) = Trim(groups)
            /\ cursors[1].index = 6 + 5 * Len(groups)

\* C5: read_bits(n), n in 1..16, on a cursor with at least n bits left returns the
\* number whose binary expansion is the next n bits, the earliest the most significant,
\* and advances the index by exactly n.
C5_ReadBits ==
    (/\ last.op = "read_bits"
     /\ last.arg \in 1..16
     /\ last.before.index + last.arg <= Len(last.before.bytes)) =>
        /\ last.panic = ""
        /\ last.value = Value(SubSeq(last.before.bytes, last.before.index + 1,
                                     last.before.index + last.arg))
        /\ cursors[1].index = last.before.index + last.arg
        /\ cursors[1].bytes = last.before.bytes

\* C5 witness: read_bits(16) at index 3 of "110100101111111000101000" gave 0x97F1
C5_Witness ==
    /\ last.op = "read_bits"
    /\ last.arg = 16
    /\ last.before.index = 3
    /\ last.panic = ""
    /\ last.value = 38897

\* C6: a read_bits(n) with fewer than n bits left does not abort the program (it is
\* to return the error UnexpectedEnd to its caller).
C6_UnexpectedEnd ==
    (/\ last.op = "read_bits"
     /\ last.arg <= 16
     /\ last.before.index + last.arg > Len(last.before.bytes)) =>
        pc # "panic"

\* C7: no failure of a decode step aborts the program while decode runs (every
\* failure is to reach the caller of decode as a typed failure).
C7_TypedFailure == ~(pc = "panic" /\ stack # <<>>)

\* the kind of each operator type id
KindIds ==
    {<<0, "Sum">>, <<1, "Product">>, <<2, "Min">>, <<3, "Max">>,
     <<5, "GreaterThan">>, <<6, "LessThan">>, <<7, "Equal">>}

RECURSIVE SubPackets(_)
\* the packets of a tree
SubPackets(p) ==
    {p} \cup (IF p.data.tag = "Operator"
              THEN UNION {SubPackets(p.data.packets[i]) : i \in 1..Len(p.data.packets)}
              ELSE {})

\* C8: every decoded packet stores the type id read from its header; it is a Literal
\* exactly when that id is 4, and otherwise an Operator whose kind is Sum, Product,
\* Min, Max, GreaterThan, LessThan, Equal for 0, 1, 2, 3, 5, 6, 7.
C8_TypeIdShape ==
    /\ \A k \in 1..Len(stack) :
          (pc = "decoding" /\ stack[k].fn = "read_packets") =>
              \A i \in 1..Len(stack[k].packets) :
                  /\ HeaderAt(cursors[stack[k].spans[i].cur].bytes,
                              stack[k].spans[i].from, stack[k].packets[i])
                  /\ \A p \in SubPackets(stack[k].packets[i]) :
                        /\ p.data.tag = "Literal" <=> p.type_id = 4
                        /\ p.data.tag = "Operator" => <<p.type_id, p.data.kind>> \in KindIds
    /\ pc = "decoded" =>
          /\ HeaderAt(cursors[1].bytes, 0, packet[1])
          /\ \A p \in SubPackets(packet[1]) :
                /\ p.data.tag = "Literal" <=> p.type_id = 4
                /\ p.data.tag = "Operator" => <<p.type_id, p.data.kind>> \in KindIds

\* C8 witness: a decoded GreaterThan operator (type id 5) over two literals
C8_Witness ==
    /\ pc = "decoded"
    /\ packet[1].type_id = 5
    /\ packet[1].data.tag = "Operator"
    /\ packet[1].data.kind = "GreaterThan"
    /\ Len(packet[1].data.packets) = 2
    /\ packet[1].data.packets[1].data.tag = "Literal"
    /\ packet[1].data.packets[1].type_id = 4

\* calculate has run on the packet: it returned (pc "done") or aborted (pc "panic")
Calculated ==
    /\ packet # <<>>
    /\ versions # <<>>
    /\ pc \in {"done", "panic"}

\* x + y on natural numbers of any size
ExactAdd(x, y) ==
    LET n == 1 + (IF Len(x) > Len(y) THEN Len(x) ELSE Len(y))
        px == Repeat(0, n - Len(x)) \o x
        py == Repeat(0, n - Len(y)) \o y
        carry(i) == \E j \in (i + 1)..n :
                       /\ px[j] + py[j] >= 16
                       /\ \A k \in (i + 1)..(j - 1) : px[k] + py[k] = 15
    IN  Trim([i \in 1..n |-> (px[i] + py[i] + (IF carry(i) THEN 1 ELSE 0)) % 16])

RECURSIVE ExactColumn(_, _, _, _)
\* the sum of the digit products x[i] * y[c - i] that fall in column c
ExactColumn(x, y, c, i) ==
    IF i > Len(x) THEN 0
    ELSE (IF c - i >= 1 /\ c - i <= Len(y) THEN x[i] * y[c - i] ELSE 0)
         + ExactColumn(x, y, c, i + 1)

RECURSIVE ExactDigits(_, _, _, _)
\* the digits 1..c of x * y, given the carry into column c
ExactDigits(x, y, c, carry) ==
    IF c = 0 THEN <<>>
    ELSE LET s == ExactColumn(x, y, c, 1) + carry
         IN  ExactDigits(x, y, c - 1, s \div 16) \o <<s % 16>>

\* x * y on natural numbers of any size
ExactMul(x, y) == Trim(ExactDigits(x, y, Len(x) + Len(y), 0))

\* x < y on natural numbers of any size
ExactLess(x, y) ==
    \/ Len(x) < Len(y)
    \/ /\ Len(x) = Len(y)
       /\ \E i \in 1..Len(x) : x[i] < y[i] /\ \A j \in 1..(i - 1) : x[j] = y[j]

RECURSIVE ExactFold(_, _, _)
\* the sum or the product of the numbers vals[1..i]
ExactFold(kind, vals, i) ==
    IF i = 1 THEN vals[1]
    ELSE IF kind = "Sum" THEN ExactAdd(ExactFold(kind, vals, i - 1), vals[i])
    ELSE ExactMul(ExactFold(kind, vals, i - 1), vals[i])

\* C9: calculate returns the literal of a Literal, and for an operator with at least
\* one child the sum (Sum), the product (Product), the minimum (Min) or the maximum
\* (Max) of the values calculate gives for its children.
C9_Folds ==
    Calculated =>
        LET p == packet[1]
            children == IF p.data.tag = "Operator" THEN p.data.packets ELSE <<>>
            results == [i \in 1..Len(children) |-> Calculate(children[i], checked)]
            vals == [i \in 1..Len(children) |-> Trim(results[i].value)]
        IN  /\ p.data.tag = "Literal" => pc = "done" /\ value = <<p.data.literal>>
            /\ (/\ p.data.tag = "Operator"
                /\ p.data.kind \in {"Sum", "Product", "Min", "Max"}
                /\ Len(children) >= 1
                /\ \A i \in 1..Len(children) : results[i].panic = "") =>
                    /\ pc = "done"
                    /\ CASE p.data.kind \in {"Sum", "Product"} ->
                              Trim(value[1]) = ExactFold(p.data.kind, vals, Len(vals))
                         [] p.data.kind = "Min" ->
                              /\ \E i \in 1..Len(vals) : Trim(value[1]) = vals[i]
                              /\ \A i \in 1..Len(vals) : ~ExactLess(vals[i], Trim(value[1]))
                         [] OTHER ->
                              /\ \E i \in 1..Len(vals) : Trim(value[1]) = vals[i]
                              /\ \A i \in 1..Len(vals) : ~ExactLess(Trim(value[1]), vals[i])

\* C10: a GreaterThan, LessThan or Equal operator with exactly two children whose
\* values calculate gives as a and b returns 1 when a > b, a < b, a = b respectively
\* and 0 otherwise; it never returns another value.
C10_Comparisons ==
    (/\ Calculated
     /\ packet[1].data.tag = "Operator"
     /\ packet[1].data.kind \in {"GreaterThan", "LessThan", "Equal"}
     /\ Len(packet[1].data.packets) = 2) =>
        LET a == Calculate(packet[1].data.packets[1], checked)
            b == Calculate(packet[1].data.packets[2], checked)
            x == Trim(a.value)
            y == Trim(b.value)
            holds == CASE packet[1].data.kind = "GreaterThan" -> ExactLess(y, x)
                       [] packet[1].data.kind = "LessThan" -> ExactLess(x, y)
                       [] OTHER -> x = y
        IN  /\ (a.panic = "" /\ b.panic = "") =>
                  /\ pc = "done"
                  /\ value = <<IF holds THEN U64Of(1) ELSE U64Of(0)>>
            /\ value \in {<<>>, <<U64Of(0)>>, <<U64Of(1)>>}

\* C10 witness: a LessThan over two operators returned 1
C10_Witness ==
    /\ Calculated
    /\ pc = "done"
    /\ packet[1].data.tag = "Operator"
    /\ packet[1].data.kind = "LessThan"
    /\ Len(packet[1].data.packets) = 2
    /\ packet[1].data.packets[1].data.tag = "Operator"
    /\ packet[1].data.packets[2].data.tag = "Operator"
    /\ value = <<U64Of(1)>>

RECURSIVE AllVersions(_)
\* the version fields of the packets of a tree, the root first, one entry per packet
AllVersions(p) ==
    <<p.version>>
    \o (IF p.data.tag = "Operator"
        THEN Concat([i \in 1..Len(p.data.packets) |-> AllVersions(p.data.packets[i])])
        ELSE <<>>)

RECURSIVE SeqSum(_)
SeqSum(s) == IF s = <<>> THEN 0 ELSE Head(s) + SeqSum(Tail(s))

\* C11: count_version of a Literal is its version; of an Operator it is its version
\* plus the sum of count_version over its children; so the result is the sum of the
\* version fields of all the packets of the tree.
C11_CountVersionAdditive ==
    versions # <<>> =>
        /\ versions[1] = SeqSum(AllVersions(packet[1]))
        /\ \A p \in SubPackets(packet[1]) :
              /\ p.data.tag = "Literal" => CountVersion(p) = p.version
              /\ p.data.tag = "Operator" =>
                    CountVersion(p) =
                        p.version + SeqSum([i \in 1..Len(p.data.packets) |->
                                               CountVersion(p.data.packets[i])])
              /\ CountVersion(p) = SeqSum(AllVersions(p))

\* C11 witness: the transmission A0016C880162017C3686B18A3D4780, four packets deep,
\* counted 31
C11_Witness ==
    /\ versions = <<31>>
    /\ source.text = HexA0016C
    /\ packet[1].data.tag = "Operator"
    /\ packet[1].data.packets[1].data.tag = "Operator"

\* C12: every Operator packet of every tree decode returns has at least one child,
\* in both framings (also for a declared count of 0 and a declared length of 0 or 1).
C12_NonEmptyChildren ==
    pc = "decoded" =>
        \A p \in SubPackets(packet[1]) :
            p.data.tag = "Operator" => Len(p.data.packets) >= 1

\* C13: whatever read_bits, skip_bits and seek_next_byte calls were made on a cursor,
\* successful or not, its index lies between 0 and the length of its buffer.
C13_PositionInBuffer ==
    \A i \in 1..Len(cursors) :
        /\ 0 <= cursors[i].index
        /\ cursors[i].index <= Len(cursors[i].bytes)

\* C14: is_empty returns true exactly when at most one bit is left between the index
\* and the end of the buffer, and false otherwise, whatever the length of the
\* buffer, 0 included.
C14_IsEmpty ==
    last.op = "is_empty" =>
        /\ last.panic = ""
        /\ last.value = (IF Len(last.before.bytes) - last.before.index <= 1 THEN 1 ELSE 0)

\* while a read_packets of length type 0 loops over its sub parser, the parser it
\* was called on stands where the slice was taken, the sub parser holds exactly the
\* next total_length bits, and it starts at index 0
SubViewScoped ==
    \A k \in 1..Len(stack) :
        (stack[k].fn = "read_packets" /\ stack[k].pc = "while") =>
            LET f == stack[k]
            IN  /\ Len(cursors) >= f.cur + 1
                /\ cursors[f.cur].index = f.after
                /\ cursors[f.cur + 1].bytes =
                      SubSeq(cursors[f.cur].bytes, f.after + 1, f.after + f.total_length)
                /\ (k = Len(stack) /\ f.packets = <<>>) => cursors[f.cur + 1].index = 0

\* a step leaves every parser below a live sub parser as it is; the sub parser is
\* created at index 0 over a parser whose buffer the step does not change; and the
\* step that drops the sub parser advances its parent by total_length and nothing else
SubViewStep ==
    /\ \A i \in 1..Len(cursors) :
          (i < Len(cursors) /\ i < Len(cursors')) => cursors'[i] = cursors[i]
    /\ (Len(cursors) >= 1 /\ Len(cursors') > Len(cursors)) =>
          /\ Len(cursors') = Len(cursors) + 1
          /\ cursors'[Len(cursors')].index = 0
          /\ cursors'[Len(cursors)].bytes = cursors[Len(cursors)].bytes
    /\ (Len(cursors') >= 1 /\ Len(cursors') < Len(cursors)) =>
          /\ Len(cursors') = Len(cursors) - 1
          /\ cursors'[Len(cursors')].bytes = cursors[Len(cursors')].bytes
          /\ cursors'[Len(cursors')].index =
                cursors[Len(cursors')].index + Top.total_length

\* C15: making the sub-view and decoding children against it leaves the parent
\* cursor's index and buffer unchanged; the parent's index changes only at the
\* skip_bits(total_length) that follows; the sub-view starts at index 0 and moves
\* independently of the parent.
C15_SubViewIndependent == []SubViewScoped /\ [][SubViewStep]_vars

\* C15 witness: two children decoded from a sub parser that has moved, over a
\* parent that still stands where the slice was taken
C15_Witness ==
    /\ Running("read_packets", "while")
    /\ Len(Top.packets) = 2
    /\ cursors[Top.cur + 1].index > 0
    /\ cursors[Top.cur].index = Top.after
    /\ Top.after > 0

\* the read_bits calls of the decode so far, in order
Reads == SelectSeq(log, LAMBDA e : e.op = "read_bits")

\* C16: during a decode no bit of the original buffer is read by two read_bits calls,
\* the reads of the parent cursors and of all the nested sub-views taken together
\* (a read on a sub-view counts at the position its bits have in the original buffer).
C16_NoBitReadTwice ==
    \A i, j \in 1..Len(Reads) :
        i < j => \/ Reads[i].at + Reads[i].bits <= Reads[j].at
                 \/ Reads[j].at + Reads[j].bits <= Reads[i].at

\* C16 witness: a finished decode that read through the top-level cursor, then a
\* sub-view, then a sub-view of that sub-view, and went back to the outer sub-view
C16_Witness ==
    /\ pc = "decoded"
    /\ \E i, j, k \in 1..Len(Reads) :
          /\ i < j /\ j < k
          /\ Reads[i].cur = 1
          /\ Reads[j].cur = 3
          /\ Reads[k].cur = 2

\* C17: the index of a cursor never decreases: every read_bits, skip_bits and
\* seek_next_byte call, also a read_bits that fails, leaves it at or above the value
\* it had before the call.
C17_PositionMonotonic ==
    [][/\ Len(cursors') = Len(cursors)
       /\ \A i \in 1..Len(cursors) :
             cursors'[i].index >= cursors[i].index]_vars

\* C17 witness: seek_next_byte took the index from 3 to 8
C17_Witness ==
    /\ last.op = "seek_next_byte"
    /\ last.before.index = 3
    /\ cursors[1].index = 8

\* bits that may follow the outermost packet: nothing, padding, and a whole packet
Trailers == {<<>>, <<0>>, <<1, 1, 1>>, Repeat(0, 7), LiteralBits(5, <<9>>)}

\* C18: decode calls read_packet once and its result is a function of the bits of the
\* outermost packet alone: on every buffer that starts with those bits, whatever
\* follows them, decode returns the same tree, and the top-level cursor stops at the
\* end of the packet, no read having touched a bit behind it.
C18_TrailingBitsIgnored ==
    packet # <<>> =>
        LET bytes == cursors[1].bytes
            end == cursors[1].index
            own == DecodeBytes(bytes, checked)
        IN  /\ stack = <<>>
            /\ end <= Len(bytes)
            /\ \A i \in 1..Len(Reads) : Reads[i].at + Reads[i].bits <= end
            /\ Reads # <<>> /\ Reads[1].at = 0 /\ Reads[1].cur = 1
            /\ own.panic = "" /\ own.packet = packet /\ own.cursor.index = end
            /\ \A t \in Trailers :
                  LET other == DecodeBytes(SubSeq(bytes, 1, end) \o t, checked)
                  IN  /\ other.panic = ""
                      /\ other.packet = packet
                      /\ other.cursor.index = end

\* C18 witness: an operator with two children decoded from a buffer that goes on
\* after it with a bit that is 1, left unread
C18_Witness ==
    /\ pc = "decoded"
    /\ packet[1].data.tag = "Operator"
    /\ Len(packet[1].data.packets) = 2
    /\ cursors[1].index < Len(cursors[1].bytes)
    /\ cursors[1].bytes[Len(cursors[1].bytes)] = 1

\* C19: a value V that fits 64 bits, written as 5-bit groups of 4 payload bits, the
\* most significant first, the flag 1 on all groups but the last, also with groups
\* of payload 0 in front, is decoded by read_literal to exactly V; the decode does
\* not fail and consumes the 5 bits of every group.
C19_LiteralRoundTrip ==
    /\ pc # "panic"
    /\ pc = "decoded" =>
          /\ packet[1].data.tag = "Literal"
          /\ packet[1].data.literal = source.value
          /\ cursors[1].index = 6 + 5 * Len(LiteralNibbles(source.value, source.lead))
          /\ cursors[1].index = Len(cursors[1].bytes)

\* C19 witness: 2^64 - 1 behind one group of payload 0, seventeen groups, decoded
C19_Witness ==
    /\ pc = "decoded"
    /\ source.lead = 1
    /\ source.value = U64Max
    /\ Len(cursors[1].bytes) = 6 + 5 * 17
    /\ packet[1].data.literal = U64Max

\* C20: decode returns no Literal for groups that encode a number of more than 64
\* bits (more than 16 hexadecimal digits once the leading zeros are dropped): the
\* value is never truncated or wrapped silently.
C20_NoSilentWrap ==
    (pc = "decoded" /\ packet[1].data.tag = "Literal") =>
        Len(Trim(GroupNibbles(cursors[1].bytes, 6))) <= U64Nibbles

\* a well-formed tree: versions in 0..7, every operator with at least one child,
\* every comparison with exactly two (a literal is a u64 by construction)
WellFormed(p) ==
    \A q \in SubPackets(p) :
        /\ q.version \in 0..7
        /\ q.data.tag = "Operator" =>
              /\ Len(q.data.packets) >= 1
              /\ q.data.kind \in {"GreaterThan", "LessThan", "Equal"} =>
                    Len(q.data.packets) = 2

\* C21: on a well-formed tree count_version and calculate both return a value and
\* neither aborts, also when a Sum or a Product of the children's values exceeds
\* 64 bits.
C21_FoldsTotal ==
    (packet # <<>> /\ WellFormed(packet[1])) =>
        /\ pc # "panic"
        /\ pc \in {"counted", "done"} => versions # <<>>
        /\ pc = "done" => value # <<>>

\* the literal values of the children of an operator, in order (<<>> for a child
\* that is not a literal)
ChildLiterals(p) ==
    [i \in 1..Len(p.data.packets) |->
        IF p.data.packets[i].data.tag = "Literal"
        THEN <<p.data.packets[i].data.literal>>
        ELSE <<>>]

\* C22: the published examples decode to the published trees: D2FE28 to a Literal of
\* version 6 and value 2021; 38006F45291200 to a LessThan operator of version 1 over
\* the literals 10 and 20 in that order; EE00D40C823060 to a Max operator of version
\* 7 over the literals 1, 2, 3.
C22_PublishedTrees ==
    /\ source.text \in {HexD2FE28, Hex38006F, HexEE00D4} => pc # "panic"
    /\ (packet # <<>> /\ source.text = HexD2FE28) =>
          /\ packet[1].data.tag = "Literal"
          /\ packet[1].version = 6
          /\ packet[1].data.literal = U64Of(2021)
    /\ (packet # <<>> /\ source.text = Hex38006F) =>
          /\ packet[1].data.tag = "Operator"
          /\ packet[1].version = 1
          /\ packet[1].data.kind = "LessThan"
          /\ ChildLiterals(packet[1]) = <<<<U64Of(10)>>, <<U64Of(20)>>>>
    /\ (packet # <<>> /\ source.text = HexEE00D4) =>
          /\ packet[1].data.tag = "Operator"
          /\ packet[1].version = 7
          /\ packet[1].data.kind = "Max"
          /\ ChildLiterals(packet[1]) = <<<<U64Of(1)>>, <<U64Of(2)>>, <<U64Of(3)>>>>

\* C22 witness: EE00D40C823060 decoded, three children
C22_Witness ==
    /\ pc = "decoded"
    /\ source.kind = "hexadecimal"
    /\ source.text = HexEE00D4
    /\ Len(packet[1].data.packets) = 3

\* C23: the version sums of the published examples: 8A004A801A8002F478 gives 16,
\* 620080001611562C8802118E34 gives 12, C0015000016115A2E0802F182340 gives 23 and
\* A0016C880162017C3686B18A3D4780 gives 31.
C23_PublishedVersionSums ==
    /\ source.text \in {Hex8A004A, Hex620080, HexC00150, HexA0016C} =>
          /\ pc # "panic"
          /\ pc \in {"counted", "done"} => versions # <<>>
    /\ versions # <<>> =>
          /\ source.text = Hex8A004A => versions = <<16>>
          /\ source.text = Hex620080 => versions = <<12>>
          /\ source.text = HexC00150 => versions = <<23>>
          /\ source.text = HexA0016C => versions = <<31>>

\* C23 witness: C0015000016115A2E0802F182340 counted
C23_Witness ==
    /\ pc = "counted"
    /\ source.text = HexC00150
    /\ versions = <<23>>

\* the published transmissions with the value their evaluation is to give
PublishedValues ==
    {<<HexC200B4, 3>>, <<Hex04005A, 54>>, <<Hex880086, 7>>, <<HexCE00C4, 9>>,
     <<HexD8005A, 1>>, <<HexF600BC, 0>>, <<Hex9C005A, 0>>, <<Hex9C0141, 1>>,
     <<Hex38006F, 1>>}

\* C24: decoding and then evaluating the published examples gives C200B40A82 3,
\* 04005AC33890 54, 880086C3E88112 7, CE00C43D881120 9, D8005AC2A8F0 1, F600BC2D8F 0,
\* 9C005AC2F8F0 0, 9C0141080250320F1802104A08 1 and 38006F45291200 1.
C24_PublishedValues ==
    \A e \in PublishedValues :
        source.text = e[1] =>
            /\ pc # "panic"
            /\ pc = "done" => value = <<U64Of(e[2])>>

\* C24 witness: 9C0141080250320F1802104A08, an Equal over a Sum and a Product,
\* evaluated to 1
C24_Witness ==
    /\ pc = "done"
    /\ source.text = Hex9C0141
    /\ packet[1].data.kind = "Equal"
    /\ value = <<U64Of(1)>>

\* the hexadecimal digits, either case, each with its four bits
HexTable ==
    {<<"0", <<0, 0, 0, 0>>>>, <<"1", <<0, 0, 0, 1>>>>, <<"2", <<0, 0, 1, 0>>>>,
     <<"3", <<0, 0, 1, 1>>>>, <<"4", <<0, 1, 0, 0>>>>, <<"5", <<0, 1, 0, 1>>>>,
     <<"6", <<0, 1, 1, 0>>>>, <<"7", <<0, 1, 1, 1>>>>, <<"8", <<1, 0, 0, 0>>>>,
     <<"9", <<1, 0, 0, 1>>>>, <<"a", <<1, 0, 1, 0>>>>, <<"A", <<1, 0, 1, 0>>>>,
     <<"b", <<1, 0, 1, 1>>>>, <<"B", <<1, 0, 1, 1>>>>, <<"c", <<1, 1, 0, 0>>>>,
     <<"C", <<1, 1, 0, 0>>>>, <<"d", <<1, 1, 0, 1>>>>, <<"D", <<1, 1, 0, 1>>>>,
     <<"e", <<1, 1, 1, 0>>>>, <<"E", <<1, 1, 1, 0>>>>, <<"f", <<1, 1, 1, 1>>>>,
     <<"F", <<1, 1, 1, 1>>>>}

\* the bits of the hexadecimal digits of a text, digit after digit
HexBits(text) ==
    LET digits == SelectSeq(text, LAMBDA c : \E e \in HexTable : e[1] = c)
    IN  [i \in 1..(4 * Len(digits)) |->
            (CHOOSE e \in HexTable : e[1] = digits[((i - 1) \div 4) + 1])[2][((i - 1) % 4) + 1]]

\* C25: parse_hex_input turns each hexadecimal digit of its input, upper or lower
\* case, into 4 bits, the most significant first, in the order of the input: the
\* binary String has 4 characters per digit, and the cursor decode builds from it
\* holds one entry, 0 or 1, per bit.
C25_HexExpansion ==
    (source.kind = "hexadecimal" /\ pc # "start") =>
        /\ Len(input) = Len(HexBits(source.text))
        /\ input = BitString(HexBits(source.text))
        /\ cursors # <<>> =>
              /\ Len(cursors[1].bytes) = Len(input)
              /\ cursors[1].bytes = HexBits(source.text)

\* C25 witness: the lower-case text d2fe28 became the 24 bits of 0xD2FE28
C25_Witness ==
    /\ source.text = <<"d", "2", "f", "e", "2", "8">>
    /\ pc = "decoding"
    /\ cursors[1].bytes = Bits(13827624, 24)

\* C26: on a text with a character that is not a hexadecimal digit the transcoder
\* stops (it is to raise MalformedHexInput): no binary String is made of the
\* text and the decoder is never run on it.
C26_MalformedHexInput ==
    (/\ source.kind = "hexadecimal"
     /\ \E i \in 1..Len(source.text) : \A e \in HexTable : e[1] # source.text[i]) =>
        /\ pc = "start"
        /\ input = <<>>
        /\ cursors = <<>>

\* every read_packet call that has returned into a read_packets loop, and the
\* outermost one, moved its cursor on by at least 11 bits
ReturnedCallsAdvanced ==
    /\ \A k \in 1..Len(stack) :
          \A i \in 1..Len(stack[k].spans) :
              stack[k].spans[i].to - stack[k].spans[i].from >= 11
    /\ packet # <<>> => cursors[1].index >= 11

\* decode is over: it returned a tree or the program aborted
DecodeEnded == pc \notin {"start", "reader", "decoding"}

\* C27: decode ends on every buffer, with a tree or with a failure: each read_packet
\* call that returns has advanced its cursor by at least 11 bits, so neither the
\* loop `while !sub_parser.is_empty()` nor the recursion goes on for ever.
C27_DecodeTerminates == []ReturnedCallsAdvanced /\ <>DecodeEnded

\* C27 witness: the while loop has run twice and its first call advanced by exactly
\* 11 bits
C27_Witness ==
    /\ Running("read_packets", "while")
    /\ Len(Top.spans) = 2
    /\ Top.spans[1].to - Top.spans[1].from = 11
    /\ Top.spans[2].to - Top.spans[2].from > 11


\* the read_bits calls a step makes return bits of the original buffer that lie
\* inside every window open at that moment: a window is the total_length bits after
\* the length field of a read_packets that is looping over its sub parser
WindowStep ==
    \A i \in (Len(log) + 1)..Len(log') :
        log'[i].op = "read_bits" =>
            /\ log'[i].value =
                  Value(SubSeq(cursors[1].bytes, log'[i].at + 1, log'[i].at + log'[i].bits))
            /\ \A k \in 1..Len(stack) :
                  (stack[k].fn = "read_packets" /\ stack[k].pc = "while") =>
                      LET lo == cursors[stack[k].cur].base + stack[k].after
                      IN  /\ lo <= log'[i].at
                          /\ log'[i].at + log'[i].bits <= lo + stack[k].total_length

\* C28: a child decoded inside a region of length type 0 never obtains a bit outside
\* the window of total_length bits the parent declared: every read_bits that returns
\* lies inside every enclosing window, and a read that would cross the end of the
\* window returns nothing (the program aborts), never the parent's bits behind it.
C28_WindowConfinement == [][WindowStep]_vars

\* C28 witness: a literal group read of 5 bits inside a window was refused although
\* the original buffer holds those 5 bits behind the window
C28_Witness ==
    /\ pc = "panic"
    /\ panic = "index out of bounds"
    /\ stack # <<>>
    /\ Top.fn = "read_packet"
    /\ Top.pc = "literal"
    /\ Top.cur >= 2
    /\ TopCursor.index + 5 > Len(TopCursor.bytes)
    /\ TopCursor.base + TopCursor.index + 5 <= Len(cursors[1].bytes)


\* read_packet builds a comparison operator from whatever children read_packets
\* returned: no abort, and the packet it returns holds exactly those children
ComparisonBuilt ==
    (Running("read_packet", "operator") /\ Top.id \in {5, 6, 7}) =>
        /\ pc' # "panic"
        /\ panic' = ""
        /\ LET built == IF Len(stack) = 1 THEN packet'
                        ELSE LET caller == stack'[Len(stack) - 1]
                             IN  <<caller.packets[Len(caller.packets)]>>
           IN  /\ built # <<>>
               /\ built[1].type_id = Top.id
               /\ built[1].data.tag = "Operator"
               /\ built[1].data.kind = OperatorTypeFrom(Top.id)
               /\ built[1].data.packets = Top.packets

\* calculate on a comparison operator whose number of children is not 2: with fewer
\* it aborts and returns nothing; with more it answers for the first two alone
ComparisonOutOfArity ==
    (/\ Calculated
     /\ packet[1].data.tag = "Operator"
     /\ packet[1].data.kind \in {"GreaterThan", "LessThan", "Equal"}
     /\ Len(packet[1].data.packets) # 2) =>
        LET children == packet[1].data.packets
        IN  IF Len(children) < 2
            THEN /\ pc = "panic"
                 /\ value = <<>>
                 /\ (Len(children) = 0 \/ Calculate(children[1], checked).panic = "") =>
                        panic = "index out of bounds"
            ELSE LET a == Calculate(children[1], checked)
                     b == Calculate(children[2], checked)
                     x == Trim(a.value)
                     y == Trim(b.value)
                     holds == CASE packet[1].data.kind = "GreaterThan" -> ExactLess(y, x)
                                [] packet[1].data.kind = "LessThan" -> ExactLess(x, y)
                                [] OTHER -> x = y
                 IN  (a.panic = "" /\ b.panic = "") =>
                         /\ pc = "done"
                         /\ value = <<IF holds THEN U64Of(1) ELSE U64Of(0)>>

\* C29: the decoder does not enforce the two-children rule: for a comparison operator
\* with any number k of children decode returns the Operator with exactly those k
\* children and no error; calculate then compares only children 0 and 1 when k > 2,
\* and aborts without returning 0 or 1 when k < 2.
C29_ComparisonArity == []ComparisonOutOfArity /\ [][ComparisonBuilt]_vars

\* C29 witness: a GreaterThan with the three children 20, 10 and 200 was decoded and
\* calculate returned 1
C29_Witness ==
    /\ Calculated
    /\ pc = "done"
    /\ packet[1].data.tag = "Operator"
    /\ packet[1].data.kind = "GreaterThan"
    /\ Len(packet[1].data.packets) = 3
    /\ Calculate(packet[1].data.packets[1], checked).value = U64Of(20)
    /\ Calculate(packet[1].data.packets[2], checked).value = U64Of(10)
    /\ Calculate(packet[1].data.packets[3], checked).value = U64Of(200)
    /\ value = <<U64Of(1)>>


\* C30: the abort "Operator not supported." cannot happen in a decode: the conversion
\* to an operator kind is applied only to a type id that read_bits(3) returned and
\* that is not 4, hence to one of 0, 1, 2, 3, 5, 6, 7, and it has a kind for each.
C30_OperatorSupported ==
    /\ panic # "Operator not supported."
    /\ \A k \in 1..Len(stack) :
          (stack[k].fn = "read_packet" /\ stack[k].pc \notin {"header", "literal"}) =>
              /\ stack[k].id \in {0, 1, 2, 3, 5, 6, 7}
              /\ stack[k].id =
                    Value(SubSeq(cursors[stack[k].cur].bytes,
                                 stack[k].start + 4, stack[k].start + 6))
              /\ OperatorTypeFrom(stack[k].id) # ""
    /\ \A k \in 1..Len(stack) :
          (stack[k].fn = "read_packet" /\ stack[k].pc = "literal") => stack[k].id = 4

\* C30 witness: the conversion has been applied to the ids 7, 5 and 6 of three nested
\* operators of a decoded tree
C30_Witness ==
    /\ pc = "decoded"
    /\ packet[1].type_id = 7
    /\ packet[1].data.tag = "Operator"
    /\ packet[1].data.kind = "Equal"
    /\ \E i, j \in 1..Len(packet[1].data.packets) :
          /\ packet[1].data.packets[i].type_id = 5
          /\ packet[1].data.packets[i].data.tag = "Operator"
          /\ packet[1].data.packets[i].data.kind = "GreaterThan"
          /\ packet[1].data.packets[j].type_id = 6
          /\ packet[1].data.packets[j].data.tag = "Operator"
          /\ packet[1].data.packets[j].data.kind = "LessThan"

=============================================================================
